---- MODULE Spec2Model ----
(***************************************************************************)
(* A disk-resident B-tree index (project3.py): the index file (header      *)
(* block and node blocks), the engine (search, insert, split_child,        *)
(* insert_non_full, traverse) stepped one disk write at a time, and the    *)
(* command layer (create, insert, search, load, print, extract) with the   *)
(* exit code each command ends with.                                       *)
(*                                                                         *)
(* A block is modelled at the granularity of its 8-byte big-endian words:  *)
(* a node block is the tuple of its 61 words (the 24 padding bytes are     *)
(* constant zero and left out), the header block the record of its three   *)
(* fields.  TLC's integers are 32 bits wide, so of the two ways a word can *)
(* be out of the range of struct's "Q" only the negative one is modelled.  *)
(***************************************************************************)
EXTENDS Integers, Sequences, FiniteSets, TLC

\* ------------------------------------------------------------ constants
BLOCK_SIZE == 512
MAGIC_NUMBER == "4348PRJ3"
DEGREE == 10
MAX_KEYS == (2 * DEGREE) - 1
MAX_CHILDREN == 2 * DEGREE

\* ------------------------------------------------------------ bounds
\* number of records of the workload (keys offered for insertion)
MaxRecords == 203
\* number of commands given an out-of-range key or value
MaxCrashes == 1
\* a load command is given when the number of records inserted is a multiple
LoadEvery == 6
\* the "free" workload: keys offered in one order, then keys offered in any
FreeBase == 17
MaxFree == 4
\* object identifiers available to the frames of one insert call
MaxObjs == 6

Oids == 1..MaxObjs

Max(a, b) == IF a >= b THEN a ELSE b

\* ------------------------------------------------------------ node codec
\* BTreeNode.__init__
BTreeNode ==
  [ block_id |-> 0, parent_id |-> 0, num_keys |-> 0,
    keys     |-> [s \in 0..(MAX_KEYS - 1) |-> 0],
    values   |-> [s \in 0..(MAX_KEYS - 1) |-> 0],
    children |-> [s \in 0..(MAX_CHILDREN - 1) |-> 0] ]

\* BTreeNode.is_leaf
is_leaf(node) == node.children[0] = 0

\* struct's "Q": an unsigned 64-bit word
InQ(x) == x >= 0

\* whether struct.pack(NODE_FMT, ...) accepts the node (else struct.error)
Packable(node) ==
  /\ InQ(node.block_id) /\ InQ(node.parent_id) /\ InQ(node.num_keys)
  /\ \A s \in 0..(MAX_KEYS - 1) : InQ(node.keys[s]) /\ InQ(node.values[s])
  /\ \A s \in 0..(MAX_CHILDREN - 1) : InQ(node.children[s])

\* BTreeNode.serialize: the words of the block, in NODE_FMT order
serialize(node) ==
  [ p \in 1..(3 + MAX_KEYS + MAX_KEYS + MAX_CHILDREN) |->
      IF p = 1 THEN node.block_id
      ELSE IF p = 2 THEN node.parent_id
      ELSE IF p = 3 THEN node.num_keys
      ELSE IF p <= 3 + MAX_KEYS THEN node.keys[p - 4]
      ELSE IF p <= 3 + MAX_KEYS + MAX_KEYS THEN node.values[p - 4 - MAX_KEYS]
      ELSE node.children[p - 4 - MAX_KEYS - MAX_KEYS] ]

\* BTreeNode.deserialize: unpacked[x] of the code is data[x + 1] here
deserialize(data) ==
  LET k_start == 3
      v_start == k_start + MAX_KEYS
      c_start == v_start + MAX_KEYS
  IN [ block_id  |-> data[1],
       parent_id |-> data[2],
       num_keys  |-> data[3],
       keys      |-> [s \in 0..(MAX_KEYS - 1) |-> data[k_start + s + 1]],
       values    |-> [s \in 0..(MAX_KEYS - 1) |-> data[v_start + s + 1]],
       children  |-> [s \in 0..(MAX_CHILDREN - 1) |-> data[c_start + s + 1]] ]

\* a block of the file that no write has touched (a hole reads as zeros)
ZeroBlock == [p \in 1..(3 + MAX_KEYS + MAX_KEYS + MAX_CHILDREN) |-> 0]

\* ------------------------------------------------------------ block I/O
\* read_node: block_id 0 gives None, a block past the end of the file a
\* short read that deserialize refuses; Readable is the remaining case
Readable(blks, block_id) == block_id >= 1 /\ block_id <= Len(blks)

read_node(blks, block_id) == deserialize(blks[block_id])

\* write_node: seek to block_id * BLOCK_SIZE and write; a seek past the end
\* leaves a hole of zero blocks
write_node(blks, node) ==
  [ b \in 1..Max(Len(blks), node.block_id) |->
      IF b = node.block_id THEN serialize(node)
      ELSE IF b <= Len(blks) THEN blks[b]
      ELSE ZeroBlock ]

\* _write_header: block 0 from the handle's root_id and next_block_id
write_header(h) ==
  [ magic |-> MAGIC_NUMBER, root_id |-> h.root_id, next_block_id |-> h.next_block_id ]

\* no file at the path
NoFile == [exists |-> FALSE, len0 |-> 0]

\* a file whose block 0 is whole
WholeFile == [exists |-> TRUE, len0 |-> BLOCK_SIZE]

\* an open that does not compare the magic
Opens_AnyMagic(f, h) ==
  /\ f.exists
  /\ ~(f.len0 < BLOCK_SIZE)

\* IndexFile.__init__ (mode 'r+b') and _read_header: whether the open gets
\* past os.path.exists, the length of the data read, and the magic
Opens(f, h) ==
  /\ f.exists
  /\ ~(f.len0 < BLOCK_SIZE)
  /\ ~(h.magic # MAGIC_NUMBER)

\* _read_header (the magic matches: the file was made by create)
read_header(header) ==
  [ root_id |-> header.root_id, next_block_id |-> header.next_block_id ]

\* ------------------------------------------------------------ search
None == <<>>

\* the inner while loop of search: first i with not (key > keys[i])
RECURSIVE search_scan(_, _, _)
search_scan(current, k, i) ==
  IF i < current.num_keys /\ k > current.keys[i]
  THEN search_scan(current, k, i + 1)
  ELSE i

\* the outer while loop of search, from the node in block_id
RECURSIVE search_loop(_, _, _)
search_loop(blks, block_id, k) ==
  LET current == read_node(blks, block_id)
      i == search_scan(current, k, 0)
  IN IF i < current.num_keys /\ k = current.keys[i]
     THEN <<current.keys[i], current.values[i]>>
     ELSE IF is_leaf(current) THEN None
     ELSE IF current.children[i] = 0 THEN None
     ELSE search_loop(blks, current.children[i], k)

\* IndexFile.search
search(blks, root_id, k) ==
  IF root_id = 0 THEN None ELSE search_loop(blks, root_id, k)

\* ------------------------------------------------------------ traverse
\* IndexFile.traverse: the sequence of callback(key, value) calls
RECURSIVE traverse(_, _)
RECURSIVE traverse_from(_, _, _)
\* traverse with the callback made before the child is visited
traverse_from_preorder(blks, node, i) ==
  IF i < node.num_keys
  THEN <<<<node.keys[i], node.values[i]>>>> \o traverse(blks, node.children[i])
         \o traverse_from(blks, node, i + 1)
  ELSE traverse(blks, node.children[node.num_keys])

traverse_from(blks, node, i) ==
  IF i < node.num_keys
  THEN traverse(blks, node.children[i]) \o <<<<node.keys[i], node.values[i]>>>>
         \o traverse_from(blks, node, i + 1)
  ELSE traverse(blks, node.children[node.num_keys])

traverse(blks, node_id) ==
  IF node_id = 0 THEN <<>>
  ELSE traverse_from(blks, read_node(blks, node_id), 0)

\* ------------------------------------------------------------ int()
\* A command-line argument or a field of a record: a tuple of characters.
DigitChars == <<"0", "1", "2", "3", "4", "5", "6", "7", "8", "9">>

IsDigit(c) == \E d \in 1..10 : DigitChars[d] = c

DigitVal(c) == (CHOOSE d \in 1..10 : DigitChars[d] = c) - 1

\* str.strip as int() applies it: leading and trailing blanks dropped
RECURSIVE lstrip(_)
lstrip(s) == IF s # <<>> /\ s[1] = " " THEN lstrip(Tail(s)) ELSE s

RECURSIVE rstrip(_)
rstrip(s) ==
  IF s # <<>> /\ s[Len(s)] = " " THEN rstrip(SubSeq(s, 1, Len(s) - 1)) ELSE s

\* the value of a run of digits and single underscores, most significant first
RECURSIVE digits_value(_, _)
digits_value(s, acc) ==
  IF s = <<>> THEN acc
  ELSE IF s[1] = "_" THEN digits_value(Tail(s), acc)
  ELSE digits_value(Tail(s), (10 * acc) + DigitVal(s[1]))

\* Python's int(str): blanks stripped, an optional sign, then digits, where a
\* single underscore may stand between two digits; anything else is ValueError
int(tok) ==
  LET s    == rstrip(lstrip(tok))
      neg  == s # <<>> /\ s[1] = "-"
      body == IF s # <<>> /\ s[1] \in {"+", "-"} THEN Tail(s) ELSE s
      ok   == /\ body # <<>>
              /\ IsDigit(body[1]) /\ IsDigit(body[Len(body)])
              /\ \A p \in 1..Len(body) :
                   \/ IsDigit(body[p])
                   \/ /\ body[p] = "_"
                      /\ IsDigit(body[p - 1]) /\ IsDigit(body[p + 1])
  IN [ ok  |-> ok,
       val |-> IF ~ok THEN 0
               ELSE IF neg THEN 0 - digits_value(body, 0)
               ELSE digits_value(body, 0) ]

\* ------------------------------------------------------------ inputs
\* the decimal numeral of n >= 0, as the shell passes it
RECURSIVE Numeral(_)
Numeral(n) ==
  IF n < 10 THEN <<DigitChars[n + 1]>>
  ELSE Numeral(n \div 10) \o <<DigitChars[(n % 10) + 1]>>

\* The orders in which fresh keys are offered: ascending from 1, descending,
\* alternating between the two ends, scattered by a stride, and ("free") the
\* multiples of ten ascending with keys between them offered at any time in
\* any order.
Workloads == {"asc", "desc", "zig", "stride", "free"}

\* the workloads in which commands with out-of-range integers are given too
RangeWorkloads == {"desc"}

WorkKey(wl, j) ==
  CASE wl = "asc"    -> j
    [] wl = "desc"   -> MaxRecords - j
    [] wl = "zig"    -> IF j % 2 = 1 THEN (j - 1) \div 2 ELSE MaxRecords - (j \div 2)
    [] wl = "stride" -> (j * 89) % 211
    [] wl = "free"   -> 10 * (j - 1)

FreeKey(f) == (((f * 47) % FreeBase) * 10) + 5

WorkVal(k) == (3 * k) + 1

\* ------------------------------------------------------------ state
VARIABLES
  header,     \* block 0 of the index file: magic, root_id, next_block_id
  blocks,     \* the node blocks of the index file: blocks[b] is block b
  idx,        \* the open IndexFile handle: root_id, next_block_id
  pc,         \* where the running command stands ("idle": none is running,
              \* "done": it has ended and res is its outcome)
  key, value, \* the arguments of the running insert call
  ins,        \* the frame of insert: root, new_root
  inf,        \* the frames of insert_non_full, outermost first: node, child, i
  sp,         \* the frame of split_child, if any: parent, index, child, z, child_node, j
  heap,       \* the BTreeNode objects the frames refer to
  cmd,        \* the command running or last run: name, rows, pos, base, diag
  res,        \* how the last command ended: status, exit, out
  inserted,   \* history: key -> value of every insert call that returned, first call per key
  pre,        \* history: the tree when the command's last insert call began
  workload,   \* the order in which fresh keys are offered
  crashes,    \* commands given an out-of-range key or value so far
  file        \* the path of the index file: whether a file exists there, and
              \* how many bytes of block 0 it has

vars == << header, blocks, idx, pc, key, value, ins, inf, sp, heap,
           cmd, res, inserted, pre, workload, crashes, file >>

\* IndexFile.__init__: root_id and next_block_id before any header is read
NoHandle == [root_id |-> 0, next_block_id |-> 1]

NoIns == [root |-> 0, new_root |-> 0]

EmptyHeap == [o \in Oids |-> BTreeNode]

\* the objects some active frame refers to
Refs(insF, infF, spF) ==
  ( {insF.root, insF.new_root}
    \cup UNION { {infF[f].node, infF[f].child} : f \in DOMAIN infF }
    \cup UNION { {spF[f].parent, spF[f].child, spF[f].z, spF[f].child_node} :
                 f \in DOMAIN spF } ) \ {0}

\* reference counting: an object no frame refers to is gone
Keep(hp, refs) == [o \in Oids |-> IF o \in refs THEN hp[o] ELSE BTreeNode]

NewOid(refs) == CHOOSE o \in Oids \ refs : \A q \in Oids \ refs : o <= q

\* the node blocks resident in memory
Resident == Refs(ins, inf, sp)

NoCmd ==
  [ name |-> "none", opened |-> "no", rows |-> <<>>, pos |-> 0, base |-> <<>>,
    diag |-> FALSE ]

NoRes == [status |-> "running", exit |-> 0, out |-> <<>>]

\* leaf depth along the leftmost path (0: the root is a leaf, or there is none)
RECURSIVE LeftDepth(_, _)
LeftDepth(blks, block_id) ==
  IF block_id = 0 \/ is_leaf(read_node(blks, block_id)) THEN 0
  ELSE 1 + LeftDepth(blks, read_node(blks, block_id).children[0])

Height == LeftDepth(blocks, header.root_id)

\* the records inserted so far, and the next fresh one of the workload
Count == Cardinality(DOMAIN inserted)

FreshKey == WorkKey(workload, Count + 1)

\* the fresh keys the insert command may be given next
BaseDone == Cardinality(DOMAIN inserted \cap { WorkKey("free", j) : j \in 1..FreeBase })

FreshKeys ==
  IF workload = "free"
  THEN (IF BaseDone < FreeBase THEN { WorkKey("free", BaseDone + 1) } ELSE {})
       \cup ({ FreeKey(f) : f \in 1..MaxFree } \ DOMAIN inserted)
  ELSE IF Count < MaxRecords THEN { FreshKey } ELSE {}

\* keys inserted before: the first, and the last of the workload's own order
KnownKeys ==
  IF Count = 0 THEN {}
  ELSE IF workload = "free" THEN DOMAIN inserted \cap { 0, FreeKey(1), FreeKey(2) }
  ELSE { WorkKey(workload, 1), WorkKey(workload, Count) }

NoEntry ==
  [ called |-> FALSE, height |-> 0, root_full |-> FALSE, present |-> FALSE,
    root_id |-> 0, next_block_id |-> 0, keys |-> BTreeNode.keys ]

\* block 0 of a file that has none, or has no whole header
NoHeader == [magic |-> "", root_id |-> 0, next_block_id |-> 0]

\* what is at the path before the program is first run: nothing, an empty
\* file, the first 8 and the first 511 bytes of an index, and a file of one
\* block whose first 8 bytes are not the magic
StartFiles ==
  { [file |-> NoFile, header |-> NoHeader],
    [file |-> [exists |-> TRUE, len0 |-> 0], header |-> NoHeader],
    [file |-> [exists |-> TRUE, len0 |-> 8], header |-> write_header(NoHandle)],
    [file |-> [exists |-> TRUE, len0 |-> BLOCK_SIZE - 1], header |-> write_header(NoHandle)],
    [file |-> WholeFile,
     header |-> [write_header(NoHandle) EXCEPT !.magic = "4348PRJ2"]] }

Init ==
  /\ \E s \in StartFiles : file = s.file /\ header = s.header
  /\ blocks = <<>>
  /\ idx = NoHandle
  /\ pc = "idle"
  /\ key = 0 /\ value = 0
  /\ ins = NoIns /\ inf = <<>> /\ sp = <<>> /\ heap = EmptyHeap
  /\ cmd = NoCmd /\ res = NoRes
  /\ inserted = <<>>
  /\ pre = NoEntry
  /\ workload \in Workloads
  /\ crashes = 0

\* ------------------------------------------------------------ allocator
\* allocate_node without the increment of line 135
allocate_node_stale(h) ==
  [ idx  |-> h,
    node |-> [BTreeNode EXCEPT !.block_id = h.next_block_id] ]

\* IndexFile.allocate_node: the handle after it, and the new node; the caller
\* writes the header from the handle in the same step
allocate_node(h) ==
  [ idx  |-> [h EXCEPT !.next_block_id = h.next_block_id + 1],
    node |-> [BTreeNode EXCEPT !.block_id = h.next_block_id] ]

\* ------------------------------------------------------------ ends of a call
NoFrames ==
  /\ ins' = NoIns /\ inf' = <<>> /\ sp' = <<>> /\ heap' = EmptyHeap

\* the history of insert calls that returned: the first call of a key counts
Recorded ==
  IF key \in DOMAIN inserted THEN inserted ELSE inserted @@ (key :> value)

\* insert returns to its caller: cmd_insert closes the file and main returns
\* (exit code 0); cmd_load goes on to the next row
InsertReturns(printed) ==
  /\ NoFrames
  /\ inserted' = Recorded
  /\ cmd' = [cmd EXCEPT !.diag = cmd.diag \/ printed,
                        !.pos = IF cmd.name = "load" THEN cmd.pos + 1 ELSE cmd.pos]
  /\ IF cmd.name = "load"
     THEN /\ pc' = "load_row"
          /\ idx' = idx
          /\ res' = res
     ELSE /\ pc' = "done"
          /\ idx' = NoHandle
          /\ res' = [ status |-> IF cmd.diag \/ printed THEN "error" ELSE "ok",
                      exit |-> 0, out |-> <<>> ]

\* an exception no handler catches (struct.error): the finally clause closes
\* the file, the interpreter prints the traceback and exits with code 1
Uncaught ==
  /\ NoFrames
  /\ pc' = "done"
  /\ idx' = NoHandle
  /\ res' = [status |-> "crash", exit |-> 1, out |-> <<>>]
  /\ UNCHANGED << cmd, inserted >>

\* ------------------------------------------------------------ insert
\* insert, lines 176-177: the tree is empty, the root is allocated
InsertEmpty ==
  /\ pc = "insert"
  /\ idx.root_id = 0
  /\ LET a    == allocate_node(idx)
         o    == NewOid({})
         ins2 == [root |-> o, new_root |-> 0]
     IN /\ idx' = a.idx
        /\ header' = write_header(a.idx)
        /\ ins' = ins2
        /\ heap' = Keep([heap EXCEPT ![o] = a.node], Refs(ins2, inf, sp))
  /\ pc' = "empty_write"
  /\ UNCHANGED << blocks, key, value, inf, sp, cmd, res, inserted, pre, workload, crashes, file >>

\* insert, lines 178-181: the root as it is handed to write_node
empty_root(root, k, v) ==
  [root EXCEPT !.num_keys = 1, !.keys[0] = k, !.values[0] = v]

\* insert, lines 178-182: the root is filled and written
EmptyWrite ==
  /\ pc = "empty_write"
  /\ LET root == empty_root(heap[ins.root], key, value)
     IN /\ Packable(root)
        /\ idx' = [idx EXCEPT !.root_id = root.block_id]
        /\ blocks' = write_node(blocks, root)
        /\ heap' = [heap EXCEPT ![ins.root] = root]
  /\ pc' = "empty_hdr"
  /\ UNCHANGED << header, key, value, ins, inf, sp, cmd, res, inserted, pre, workload, crashes, file >>

\* insert, line 182: serialize refuses the key or the value
EmptyWriteError ==
  /\ pc = "empty_write"
  /\ ~Packable(empty_root(heap[ins.root], key, value))
  /\ Uncaught
  /\ UNCHANGED << header, blocks, key, value, pre, workload, crashes, file >>

\* insert without the header write of line 183
EmptyHeader_NoWrite ==
  /\ pc = "empty_hdr"
  /\ header' = header
  /\ InsertReturns(FALSE)
  /\ UNCHANGED << blocks, key, value, pre, workload, crashes, file >>

\* insert, lines 183-184: the header names the root, and insert returns
EmptyHeader ==
  /\ pc = "empty_hdr"
  /\ header' = write_header(idx)
  /\ InsertReturns(FALSE)
  /\ UNCHANGED << blocks, key, value, pre, workload, crashes, file >>

\* insert, lines 187-189: the key is found, a message is printed, insert returns
InsertDuplicate ==
  /\ pc = "insert"
  /\ idx.root_id # 0
  /\ search(blocks, idx.root_id, key) # None
  /\ InsertReturns(TRUE)
  /\ UNCHANGED << header, blocks, key, value, pre, workload, crashes, file >>

\* insert with the full root handled before the duplicate check
InsertRootFull_Unchecked ==
  /\ pc = "insert"
  /\ idx.root_id # 0
  /\ read_node(blocks, idx.root_id).num_keys = MAX_KEYS
  /\ LET root     == read_node(blocks, idx.root_id)
         a        == allocate_node(idx)
         new_root == [a.node EXCEPT !.children[0] = idx.root_id]
         o        == NewOid({})
         n        == NewOid({o})
         ins2     == [root |-> o, new_root |-> n]
     IN /\ idx' = a.idx
        /\ header' = write_header(a.idx)
        /\ ins' = ins2
        /\ heap' = Keep([heap EXCEPT ![o] = [root EXCEPT !.parent_id = new_root.block_id],
                                     ![n] = new_root],
                        Refs(ins2, inf, sp))
  /\ pc' = "grow_write"
  /\ UNCHANGED << blocks, key, value, inf, sp, cmd, res, inserted, pre, workload, crashes, file >>

\* insert, lines 191-199: the root is read and is full; a new root is
\* allocated above it
InsertRootFull ==
  /\ pc = "insert"
  /\ idx.root_id # 0
  /\ search(blocks, idx.root_id, key) = None
  /\ read_node(blocks, idx.root_id).num_keys = MAX_KEYS
  /\ LET root     == read_node(blocks, idx.root_id)
         a        == allocate_node(idx)
         new_root == [a.node EXCEPT !.children[0] = idx.root_id]
         o        == NewOid({})
         n        == NewOid({o})
         ins2     == [root |-> o, new_root |-> n]
     IN /\ idx' = a.idx
        /\ header' = write_header(a.idx)
        /\ ins' = ins2
        /\ heap' = Keep([heap EXCEPT ![o] = [root EXCEPT !.parent_id = new_root.block_id],
                                     ![n] = new_root],
                        Refs(ins2, inf, sp))
  /\ pc' = "grow_write"
  /\ UNCHANGED << blocks, key, value, inf, sp, cmd, res, inserted, pre, workload, crashes, file >>

\* insert without the write of line 200
GrowWrite_Skipped ==
  /\ pc = "grow_write"
  /\ blocks' = blocks
  /\ pc' = "grow_hdr"
  /\ UNCHANGED << header, idx, key, value, ins, inf, sp, heap, cmd, res, inserted, pre,
                  workload, crashes, file >>

\* insert, line 200: the old root, now a child, is written
GrowWrite ==
  /\ pc = "grow_write"
  /\ blocks' = write_node(blocks, heap[ins.root])
  /\ pc' = "grow_hdr"
  /\ UNCHANGED << header, idx, key, value, ins, inf, sp, heap, cmd, res, inserted, pre,
                  workload, crashes, file >>

\* insert without line 203: the handle keeps the old root_id
GrowHeader_OldRoot ==
  /\ pc = "grow_hdr"
  /\ idx' = idx
  /\ header' = write_header(idx)
  /\ sp' = << [ parent |-> ins.new_root, index |-> 0, child |-> ins.root,
                z |-> 0, child_node |-> 0, j |-> 0 ] >>
  /\ pc' = "split"
  /\ UNCHANGED << blocks, key, value, ins, inf, heap, cmd, res, inserted, pre, workload, crashes, file >>

\* insert, lines 203-207: the header names the new root; split_child is called
GrowHeader ==
  /\ pc = "grow_hdr"
  /\ LET h == [idx EXCEPT !.root_id = heap[ins.new_root].block_id]
     IN /\ idx' = h
        /\ header' = write_header(h)
  /\ sp' = << [ parent |-> ins.new_root, index |-> 0, child |-> ins.root,
                z |-> 0, child_node |-> 0, j |-> 0 ] >>
  /\ pc' = "split"
  /\ UNCHANGED << blocks, key, value, ins, inf, heap, cmd, res, inserted, pre, workload, crashes, file >>

\* insert, lines 191-194 and 212: the root is read and is not full
InsertRootNotFull ==
  /\ pc = "insert"
  /\ idx.root_id # 0
  /\ search(blocks, idx.root_id, key) = None
  /\ read_node(blocks, idx.root_id).num_keys # MAX_KEYS
  /\ LET o    == NewOid({})
         ins2 == [root |-> o, new_root |-> 0]
         inf2 == << [node |-> o, child |-> 0, i |-> 0] >>
     IN /\ ins' = ins2
        /\ inf' = inf2
        /\ heap' = Keep([heap EXCEPT ![o] = read_node(blocks, idx.root_id)],
                        Refs(ins2, inf2, sp))
  /\ pc' = "inf"
  /\ UNCHANGED << header, blocks, idx, key, value, sp, cmd, res, inserted, pre, workload, crashes, file >>

\* ------------------------------------------------------------ split_child
\* split_child with the count of items to move one too small
split_copy_short(parent, child, z) ==
  LET t == DEGREE
      num_items_to_move == DEGREE - 2
  IN [ z |-> [z EXCEPT
                !.parent_id = parent.block_id,
                !.num_keys = num_items_to_move,
                !.keys = [s \in 0..(MAX_KEYS - 1) |->
                            IF s < num_items_to_move THEN child.keys[s + t] ELSE z.keys[s]],
                !.values = [s \in 0..(MAX_KEYS - 1) |->
                            IF s < num_items_to_move THEN child.values[s + t]
                            ELSE z.values[s]]],
       child |-> [child EXCEPT
                !.keys = [s \in 0..(MAX_KEYS - 1) |->
                            IF s >= t /\ s < t + num_items_to_move THEN 0
                            ELSE child.keys[s]],
                !.values = [s \in 0..(MAX_KEYS - 1) |->
                            IF s >= t /\ s < t + num_items_to_move THEN 0
                            ELSE child.values[s]]] ]

\* split_child without the cleanup of lines 236-237
split_copy_dirty(parent, child, z) ==
  LET t == DEGREE
      num_items_to_move == DEGREE - 1
  IN [ z |-> [z EXCEPT
                !.parent_id = parent.block_id,
                !.num_keys = num_items_to_move,
                !.keys = [s \in 0..(MAX_KEYS - 1) |->
                            IF s < num_items_to_move THEN child.keys[s + t] ELSE z.keys[s]],
                !.values = [s \in 0..(MAX_KEYS - 1) |->
                            IF s < num_items_to_move THEN child.values[s + t]
                            ELSE z.values[s]]],
       child |-> child ]

\* split_child, lines 218-237: z takes the upper keys and values of child
split_copy(parent, child, z) ==
  LET t == DEGREE
      num_items_to_move == DEGREE - 1
  IN [ z |-> [z EXCEPT
                !.parent_id = parent.block_id,
                !.num_keys = num_items_to_move,
                !.keys = [s \in 0..(MAX_KEYS - 1) |->
                            IF s < num_items_to_move THEN child.keys[s + t] ELSE z.keys[s]],
                !.values = [s \in 0..(MAX_KEYS - 1) |->
                            IF s < num_items_to_move THEN child.values[s + t]
                            ELSE z.values[s]]],
       child |-> [child EXCEPT
                !.keys = [s \in 0..(MAX_KEYS - 1) |->
                            IF s >= t /\ s < t + num_items_to_move THEN 0
                            ELSE child.keys[s]],
                !.values = [s \in 0..(MAX_KEYS - 1) |->
                            IF s >= t /\ s < t + num_items_to_move THEN 0
                            ELSE child.values[s]]] ]

\* split_child, lines 217-240: z is allocated and filled
SplitAlloc ==
  /\ pc = "split"
  /\ LET f    == sp[1]
         a    == allocate_node(idx)
         o    == NewOid(Resident)
         c    == split_copy(heap[f.parent], heap[f.child], a.node)
         sp2  == << [f EXCEPT !.z = o] >>
     IN /\ idx' = a.idx
        /\ header' = write_header(a.idx)
        /\ sp' = sp2
        /\ heap' = Keep([heap EXCEPT ![o] = c.z, ![f.child] = c.child],
                        Refs(ins, inf, sp2))
        /\ pc' = IF is_leaf(heap[f.child]) THEN "split_write_c" ELSE "split_relink"
  /\ UNCHANGED << blocks, key, value, ins, inf, cmd, res, inserted, pre, workload, crashes, file >>

\* split_child without line 246: the moved child keeps its old parent_id
SplitRelink_OldParent ==
  /\ pc = "split_relink"
  /\ LET f     == sp[1]
         t     == DEGREE
         child == heap[f.child]
         z     == [heap[f.z] EXCEPT !.children[f.j] = child.children[f.j + t]]
         moved == z.children[f.j] # 0
         o     == IF f.child_node # 0 THEN f.child_node ELSE NewOid(Resident)
         child_node == read_node(blocks, z.children[f.j])
         sp2   == << [f EXCEPT !.j = f.j + 1,
                               !.child_node = IF moved THEN o ELSE f.child_node] >>
         hp    == [heap EXCEPT ![f.z] = z,
                               ![f.child] = [child EXCEPT !.children[f.j + t] = 0]]
     IN /\ sp' = sp2
        /\ IF moved
           THEN /\ blocks' = write_node(blocks, child_node)
                /\ heap' = Keep([hp EXCEPT ![o] = child_node], Refs(ins, inf, sp2))
           ELSE /\ blocks' = blocks
                /\ heap' = Keep(hp, Refs(ins, inf, sp2))
        /\ pc' = IF f.j + 1 = DEGREE THEN "split_write_c" ELSE "split_relink"
  /\ UNCHANGED << header, idx, key, value, ins, inf, cmd, res, inserted, pre, workload, crashes, file >>

\* split_child, lines 242-248, one turn of the loop: child j + t moves to z
\* and learns its new parent
SplitRelink ==
  /\ pc = "split_relink"
  /\ LET f     == sp[1]
         t     == DEGREE
         child == heap[f.child]
         z     == [heap[f.z] EXCEPT !.children[f.j] = child.children[f.j + t]]
         moved == z.children[f.j] # 0
         o     == IF f.child_node # 0 THEN f.child_node ELSE NewOid(Resident)
         child_node == [read_node(blocks, z.children[f.j]) EXCEPT !.parent_id = z.block_id]
         sp2   == << [f EXCEPT !.j = f.j + 1,
                               !.child_node = IF moved THEN o ELSE f.child_node] >>
         hp    == [heap EXCEPT ![f.z] = z,
                               ![f.child] = [child EXCEPT !.children[f.j + t] = 0]]
     IN /\ sp' = sp2
        /\ IF moved
           THEN /\ blocks' = write_node(blocks, child_node)
                /\ heap' = Keep([hp EXCEPT ![o] = child_node], Refs(ins, inf, sp2))
           ELSE /\ blocks' = blocks
                /\ heap' = Keep(hp, Refs(ins, inf, sp2))
        /\ pc' = IF f.j + 1 = DEGREE THEN "split_write_c" ELSE "split_relink"
  /\ UNCHANGED << header, idx, key, value, ins, inf, cmd, res, inserted, pre, workload, crashes, file >>

\* split_child with the key below the median moved up
split_parent_low_median(parent, index, child, z) ==
  LET split_idx == DEGREE - 2
      n == parent.num_keys
  IN [ parent |-> [parent EXCEPT
                !.children = [s \in 0..(MAX_CHILDREN - 1) |->
                                IF s = index + 1 THEN z.block_id
                                ELSE IF s > index + 1 /\ s <= n + 1 THEN parent.children[s - 1]
                                ELSE parent.children[s]],
                !.keys = [s \in 0..(MAX_KEYS - 1) |->
                                IF s = index THEN child.keys[split_idx]
                                ELSE IF s > index /\ s <= n THEN parent.keys[s - 1]
                                ELSE parent.keys[s]],
                !.values = [s \in 0..(MAX_KEYS - 1) |->
                                IF s = index THEN child.values[split_idx]
                                ELSE IF s > index /\ s <= n THEN parent.values[s - 1]
                                ELSE parent.values[s]],
                !.num_keys = n + 1],
       child |-> [child EXCEPT !.num_keys = DEGREE - 1,
                               !.keys[split_idx] = 0,
                               !.values[split_idx] = 0] ]

\* split_child without line 256: the slot made for z is left empty
split_parent_unlinked(parent, index, child, z) ==
  LET split_idx == DEGREE - 1
      n == parent.num_keys
  IN [ parent |-> [parent EXCEPT
                !.children = [s \in 0..(MAX_CHILDREN - 1) |->
                                IF s = index + 1 THEN 0
                                ELSE IF s > index + 1 /\ s <= n + 1 THEN parent.children[s - 1]
                                ELSE parent.children[s]],
                !.keys = [s \in 0..(MAX_KEYS - 1) |->
                                IF s = index THEN child.keys[split_idx]
                                ELSE IF s > index /\ s <= n THEN parent.keys[s - 1]
                                ELSE parent.keys[s]],
                !.values = [s \in 0..(MAX_KEYS - 1) |->
                                IF s = index THEN child.values[split_idx]
                                ELSE IF s > index /\ s <= n THEN parent.values[s - 1]
                                ELSE parent.values[s]],
                !.num_keys = n + 1],
       child |-> [child EXCEPT !.num_keys = DEGREE - 1,
                               !.keys[split_idx] = 0,
                               !.values[split_idx] = 0] ]

\* split_child, lines 250-270: the median moves up into parent at index
split_parent(parent, index, child, z) ==
  LET split_idx == DEGREE - 1
      n == parent.num_keys
  IN [ parent |-> [parent EXCEPT
                !.children = [s \in 0..(MAX_CHILDREN - 1) |->
                                IF s = index + 1 THEN z.block_id
                                ELSE IF s > index + 1 /\ s <= n + 1 THEN parent.children[s - 1]
                                ELSE parent.children[s]],
                !.keys = [s \in 0..(MAX_KEYS - 1) |->
                                IF s = index THEN child.keys[split_idx]
                                ELSE IF s > index /\ s <= n THEN parent.keys[s - 1]
                                ELSE parent.keys[s]],
                !.values = [s \in 0..(MAX_KEYS - 1) |->
                                IF s = index THEN child.values[split_idx]
                                ELSE IF s > index /\ s <= n THEN parent.values[s - 1]
                                ELSE parent.values[s]],
                !.num_keys = n + 1],
       child |-> [child EXCEPT !.num_keys = DEGREE - 1,
                               !.keys[split_idx] = 0,
                               !.values[split_idx] = 0] ]

\* split_child writing the parent where line 273 writes the child
SplitWriteChild_ParentFirst ==
  /\ pc = "split_write_c"
  /\ LET f == sp[1]
         r == split_parent(heap[f.parent], f.index, heap[f.child], heap[f.z])
     IN /\ blocks' = write_node(blocks, r.parent)
        /\ heap' = [heap EXCEPT ![f.parent] = r.parent, ![f.child] = r.child]
  /\ pc' = "split_write_z"
  /\ UNCHANGED << header, idx, key, value, ins, inf, sp, cmd, res, inserted, pre, workload, crashes, file >>

\* split_child, lines 250-273: parent and child are updated, child is written
SplitWriteChild ==
  /\ pc = "split_write_c"
  /\ LET f == sp[1]
         r == split_parent(heap[f.parent], f.index, heap[f.child], heap[f.z])
     IN /\ blocks' = write_node(blocks, r.child)
        /\ heap' = [heap EXCEPT ![f.parent] = r.parent, ![f.child] = r.child]
  /\ pc' = "split_write_z"
  /\ UNCHANGED << header, idx, key, value, ins, inf, sp, cmd, res, inserted, pre, workload, crashes, file >>

\* split_child, line 274
SplitWriteZ ==
  /\ pc = "split_write_z"
  /\ blocks' = write_node(blocks, heap[sp[1].z])
  /\ pc' = "split_write_p"
  /\ UNCHANGED << header, idx, key, value, ins, inf, sp, heap, cmd, res, inserted, pre,
                  workload, crashes, file >>

\* split_child, line 275, and the return: to insert (line 210, which calls
\* insert_non_full on new_root) or to insert_non_full (line 304)
SplitWriteParent ==
  /\ pc = "split_write_p"
  /\ blocks' = write_node(blocks, heap[sp[1].parent])
  /\ LET inf2 == IF inf = <<>> THEN << [node |-> ins.new_root, child |-> 0, i |-> 0] >>
                 ELSE inf
     IN /\ inf' = inf2
        /\ sp' = <<>>
        /\ heap' = Keep(heap, Refs(ins, inf2, <<>>))
        /\ pc' = IF inf = <<>> THEN "inf" ELSE "inf_after"
  /\ UNCHANGED << header, idx, key, value, ins, cmd, res, inserted, pre, workload, crashes, file >>

\* ------------------------------------------------------------ insert_non_full
\* insert_non_full, lines 283-286 (leaf) and 294-295 (non-leaf): i steps down
\* past the keys greater than key; in a leaf each one is moved up a slot
RECURSIVE leaf_shift(_, _, _)
leaf_shift(node, k, i) ==
  IF i >= 0 /\ k < node.keys[i]
  THEN leaf_shift([node EXCEPT !.keys[i + 1] = node.keys[i],
                               !.values[i + 1] = node.values[i]], k, i - 1)
  ELSE [node |-> node, i |-> i]

RECURSIVE child_scan(_, _, _)
child_scan(node, k, i) ==
  IF i >= 0 /\ k < node.keys[i] THEN child_scan(node, k, i - 1) ELSE i

\* insert_non_full, lines 279-290: the leaf as it is handed to write_node
leaf_insert(node, k, v) ==
  LET r == leaf_shift(node, k, node.num_keys - 1)
  IN [r.node EXCEPT !.keys[r.i + 1] = k,
                    !.values[r.i + 1] = v,
                    !.num_keys = node.num_keys + 1]

Top == inf[Len(inf)]

\* insert_non_full, lines 281-291: the key goes into the leaf, the leaf is
\* written, and every frame returns
InfLeaf ==
  /\ pc = "inf"
  /\ is_leaf(heap[Top.node])
  /\ Packable(leaf_insert(heap[Top.node], key, value))
  /\ blocks' = write_node(blocks, leaf_insert(heap[Top.node], key, value))
  /\ InsertReturns(FALSE)
  /\ UNCHANGED << header, key, value, pre, workload, crashes, file >>

\* insert_non_full, line 291: serialize refuses the key or the value
InfLeafError ==
  /\ pc = "inf"
  /\ is_leaf(heap[Top.node])
  /\ ~Packable(leaf_insert(heap[Top.node], key, value))
  /\ Uncaught
  /\ UNCHANGED << header, blocks, key, value, pre, workload, crashes, file >>

\* insert_non_full without the test of line 301: no child is split
InfDescend_NoSplit ==
  /\ pc = "inf"
  /\ ~is_leaf(heap[Top.node])
  /\ LET node  == heap[Top.node]
         i     == child_scan(node, key, node.num_keys - 1) + 1
         child == read_node(blocks, node.children[i])
         o     == NewOid(Resident)
         here  == [Top EXCEPT !.child = o, !.i = i]
         full  == FALSE
         inf2  == IF full THEN [inf EXCEPT ![Len(inf)] = here]
                  ELSE [inf EXCEPT ![Len(inf)] = here]
                         \o << [node |-> o, child |-> 0, i |-> 0] >>
         sp2   == IF full
                  THEN << [ parent |-> Top.node, index |-> i, child |-> o,
                            z |-> 0, child_node |-> 0, j |-> 0 ] >>
                  ELSE <<>>
     IN /\ inf' = inf2
        /\ sp' = sp2
        /\ heap' = Keep([heap EXCEPT ![o] = child], Refs(ins, inf2, sp2))
        /\ pc' = IF full THEN "split" ELSE "inf"
  /\ UNCHANGED << header, blocks, idx, key, value, ins, cmd, res, inserted, pre, workload, crashes, file >>

\* insert_non_full, lines 294-302 and 308: the child on the key's path is
\* read; a full child is split, any other is entered
InfDescend ==
  /\ pc = "inf"
  /\ ~is_leaf(heap[Top.node])
  /\ LET node  == heap[Top.node]
         i     == child_scan(node, key, node.num_keys - 1) + 1
         child == read_node(blocks, node.children[i])
         o     == NewOid(Resident)
         here  == [Top EXCEPT !.child = o, !.i = i]
         full  == child.num_keys = MAX_KEYS
         inf2  == IF full THEN [inf EXCEPT ![Len(inf)] = here]
                  ELSE [inf EXCEPT ![Len(inf)] = here]
                         \o << [node |-> o, child |-> 0, i |-> 0] >>
         sp2   == IF full
                  THEN << [ parent |-> Top.node, index |-> i, child |-> o,
                            z |-> 0, child_node |-> 0, j |-> 0 ] >>
                  ELSE <<>>
     IN /\ inf' = inf2
        /\ sp' = sp2
        /\ heap' = Keep([heap EXCEPT ![o] = child], Refs(ins, inf2, sp2))
        /\ pc' = IF full THEN "split" ELSE "inf"
  /\ UNCHANGED << header, blocks, idx, key, value, ins, cmd, res, inserted, pre, workload, crashes, file >>

\* insert_non_full without lines 304-305: the child left of the median is
\* entered whatever the key
InfAfterSplit_Left ==
  /\ pc = "inf_after"
  /\ LET node  == heap[Top.node]
         i     == Top.i
         child == read_node(blocks, node.children[i])
         here  == [Top EXCEPT !.child = 0, !.i = i]
         o     == NewOid(Refs(ins, [inf EXCEPT ![Len(inf)] = here], sp))
         inf2  == [inf EXCEPT ![Len(inf)] = [here EXCEPT !.child = o]]
                    \o << [node |-> o, child |-> 0, i |-> 0] >>
     IN /\ inf' = inf2
        /\ heap' = Keep([heap EXCEPT ![o] = child], Refs(ins, inf2, sp))
  /\ pc' = "inf"
  /\ UNCHANGED << header, blocks, idx, key, value, ins, sp, cmd, res, inserted, pre, workload, crashes, file >>

\* insert_non_full, lines 304-308: after the split the child on the key's
\* path is read again and entered
InfAfterSplit ==
  /\ pc = "inf_after"
  /\ LET node  == heap[Top.node]
         i     == IF key > node.keys[Top.i] THEN Top.i + 1 ELSE Top.i
         child == read_node(blocks, node.children[i])
         here  == [Top EXCEPT !.child = 0, !.i = i]
         o     == NewOid(Refs(ins, [inf EXCEPT ![Len(inf)] = here], sp))
         inf2  == [inf EXCEPT ![Len(inf)] = [here EXCEPT !.child = o]]
                    \o << [node |-> o, child |-> 0, i |-> 0] >>
     IN /\ inf' = inf2
        /\ heap' = Keep([heap EXCEPT ![o] = child], Refs(ins, inf2, sp))
  /\ pc' = "inf"
  /\ UNCHANGED << header, blocks, idx, key, value, ins, sp, cmd, res, inserted, pre, workload, crashes, file >>

\* ------------------------------------------------------------ command inputs
\* record j of the workload, as a row of a records file
Rec(j) == << Numeral(WorkKey(workload, j)), Numeral(WorkVal(WorkKey(workload, j))) >>

\* <key> <value> arguments of the insert command: the next fresh record, a
\* key inserted before (the first and the last) with another value, and
\* arguments that are not integers
InsertArgs ==
  { << Numeral(k), Numeral(WorkVal(k)) >> : k \in FreshKeys }
  \cup { << Numeral(k), <<"0">> >> : k \in KnownKeys }
  \cup { << <<"x">>, <<"1">> >>, << <<"1">>, <<"1", ".", "5">> >> }

\* <key> <value> arguments that are integers out of the range of a block word
RangeArgs ==
  { << <<"-", "1">>, <<"5">> >> }
  \cup (IF Count < MaxRecords
        THEN { << Numeral(FreshKey), <<"-", "7">> >> }
        ELSE {})

\* <key> arguments of the search command
SearchArgs ==
  { <<"x">>, Numeral(MaxRecords + 300), <<"-", "1">> }
  \cup { <<" ">> \o Numeral(k) : k \in KnownKeys }

\* records files of the load command, built on the next three fresh records:
\* duplicates, short and empty rows, a row of three fields, and a row that is
\* no pair of integers
MixedFile ==
  (IF Count >= 1 THEN << << Numeral(WorkKey(workload, 1)), <<"0">> >> >> ELSE <<>>)
  \o << Rec(Count + 1),
        << Rec(Count + 1)[1], <<"0">> >>,
        << <<"7">> >>,
        <<>>,
        << <<"+">> \o Rec(Count + 2)[1], Rec(Count + 2)[2] \o <<" ">>, <<"x">> >>,
        << <<"1", "_">>, <<"1">> >>,
        Rec(Count + 3) >>

BadValueFile ==
  << << Rec(Count + 1)[1], <<"1", ".", "5">> >>, Rec(Count + 1) >>

PlainFile == << Rec(Count + 1), Rec(Count + 2) >>

\* a row that is a single field, and no integer
ShortFile == << Rec(Count + 1), << <<"x">> >>, Rec(Count + 2) >>

LoadFiles == { MixedFile, BadValueFile, PlainFile, ShortFile, <<>> }

\* a records file with a row whose key is out of the range of a block word
RangeFile ==
  << Rec(Count + 1), << <<"-", "1">>, <<"5">> >>, Rec(Count + 2), << <<"x">>, <<"1">> >> >>

\* ------------------------------------------------------------ commands
\* what a command that is one step long leaves alone
OneStep ==
  /\ pc' = "done"
  /\ UNCHANGED << header, blocks, idx, key, value, ins, inf, sp, heap,
                  inserted, pre, workload, crashes, file >>

Named(name) == [NoCmd EXCEPT !.name = name]

\* the command has opened the index file
Opened(name) == [NoCmd EXCEPT !.name = name, !.opened = "yes"]

\* the history kept when an insert call begins
Entry(k) ==
  [ called    |-> TRUE,
    height    |-> Height,
    root_full |-> header.root_id # 0
                  /\ read_node(blocks, header.root_id).num_keys = MAX_KEYS,
    present   |-> k \in DOMAIN inserted,
    root_id   |-> header.root_id,
    next_block_id |-> header.next_block_id,
    keys      |-> IF header.root_id = 0 THEN BTreeNode.keys
                  ELSE read_node(blocks, header.root_id).keys ]

\* cmd_create on a path where no file is: the file is made and block 0
\* written from a new handle
CmdCreateNew ==
  /\ pc = "idle"
  /\ ~file.exists
  /\ file' = WholeFile
  /\ header' = write_header(NoHandle)
  /\ blocks' = <<>>
  /\ cmd' = Named("create")
  /\ res' = [status |-> "ok", exit |-> 0, out |-> <<>>]
  /\ pc' = "done"
  /\ UNCHANGED << idx, key, value, ins, inf, sp, heap, inserted, pre, workload, crashes >>

\* cmd_create on a path where a file is: sys.exit(1)
CmdCreate ==
  /\ pc = "idle"
  /\ file.exists
  /\ cmd' = Named("create")
  /\ res' = [status |-> "error", exit |-> 1, out |-> <<>>]
  /\ OneStep

\* IndexFile.__init__ (mode 'r+b') fails in a command that opens the index:
\* the message is printed and sys.exit(1) ends the process. cmd_load and
\* cmd_extract get here when the records file exists and the output file
\* does not.
OpenFails ==
  /\ pc = "idle"
  /\ ~Opens(file, header)
  /\ \E name \in {"insert", "search", "print", "load", "extract"} :
       cmd' = [Named(name) EXCEPT !.diag = TRUE, !.opened = "failed"]
  /\ res' = [status |-> "error", exit |-> 1, out |-> <<>>]
  /\ OneStep

\* cmd_insert, lines 335-339: the file is opened, key and value are integers
InsertCall(a) ==
  /\ Opens(file, header)
  /\ int(a[1]).ok /\ int(a[2]).ok
  /\ idx' = read_header(header)
  /\ key' = int(a[1]).val
  /\ value' = int(a[2]).val
  /\ pre' = Entry(int(a[1]).val)
  /\ cmd' = Opened("insert")
  /\ res' = NoRes
  /\ pc' = "insert"
  /\ UNCHANGED << header, blocks, ins, inf, sp, heap, inserted, workload, file >>

CmdInsert ==
  /\ pc = "idle"
  /\ \E a \in InsertArgs : InsertCall(a)
  /\ UNCHANGED crashes

CmdInsertRange ==
  /\ pc = "idle"
  /\ workload \in RangeWorkloads
  /\ crashes < MaxCrashes
  /\ \E a \in RangeArgs : InsertCall(a)
  /\ crashes' = crashes + 1

\* cmd_insert, lines 340-343: int() raises ValueError, a message is printed
CmdInsertValueError ==
  /\ pc = "idle"
  /\ Opens(file, header)
  /\ \E a \in InsertArgs : ~(int(a[1]).ok /\ int(a[2]).ok)
  /\ cmd' = [Opened("insert") EXCEPT !.diag = TRUE]
  /\ res' = [status |-> "error", exit |-> 0, out |-> <<>>]
  /\ OneStep

\* cmd_search, lines 350-357 and 361
CmdSearch ==
  /\ pc = "idle"
  /\ Opens(file, header)
  /\ \E a \in SearchArgs :
       /\ int(a).ok
       /\ LET h      == read_header(header)
              result == search(blocks, h.root_id, int(a).val)
          IN /\ cmd' = [Opened("search") EXCEPT !.diag = (result = None)]
             /\ res' = [ status |-> IF result = None THEN "error" ELSE "ok",
                         exit |-> 0, out |-> result ]
  /\ OneStep

\* cmd_search, lines 358-361: int() raises ValueError
CmdSearchValueError ==
  /\ pc = "idle"
  /\ Opens(file, header)
  /\ \E a \in SearchArgs : ~int(a).ok
  /\ cmd' = [Opened("search") EXCEPT !.diag = TRUE]
  /\ res' = [status |-> "error", exit |-> 0, out |-> <<>>]
  /\ OneStep

\* cmd_print: one "key value" line per callback
CmdPrint ==
  /\ pc = "idle"
  /\ Opens(file, header)
  /\ cmd' = Opened("print")
  /\ res' = [ status |-> "ok", exit |-> 0,
              out |-> traverse(blocks, read_header(header).root_id) ]
  /\ OneStep

\* cmd_extract, lines 409-416: the output file is new, one row per callback
CmdExtract ==
  /\ pc = "idle"
  /\ Opens(file, header)
  /\ cmd' = Opened("extract")
  /\ res' = [ status |-> "ok", exit |-> 0,
              out |-> traverse(blocks, read_header(header).root_id) ]
  /\ OneStep

\* cmd_extract, lines 405-407: the output file exists
CmdExtractExists ==
  /\ pc = "idle"
  /\ cmd' = [Named("extract") EXCEPT !.diag = TRUE]
  /\ res' = [status |-> "error", exit |-> 0, out |-> <<>>]
  /\ OneStep

\* cmd_load, lines 371-373: the records file does not exist
CmdLoadMissing ==
  /\ pc = "idle"
  /\ cmd' = [Named("load") EXCEPT !.diag = TRUE]
  /\ res' = [status |-> "error", exit |-> 0, out |-> <<>>]
  /\ OneStep

\* cmd_load, lines 375-378: the index file and the records file are opened
LoadOpen(rows) ==
  /\ Opens(file, header)
  /\ idx' = read_header(header)
  /\ cmd' = [ name |-> "load", opened |-> "yes", rows |-> rows, pos |-> 1,
              base |-> traverse(blocks, header.root_id), diag |-> FALSE ]
  /\ res' = NoRes
  /\ pc' = "load_row"
  /\ UNCHANGED << header, blocks, key, value, ins, inf, sp, heap, inserted, pre, workload, file >>

CmdLoad ==
  /\ pc = "idle"
  /\ workload # "free"
  /\ Count % LoadEvery = 0
  /\ Count + 3 <= MaxRecords
  /\ \E rows \in LoadFiles : LoadOpen(rows)
  /\ UNCHANGED crashes

CmdLoadRange ==
  /\ pc = "idle"
  /\ Count % LoadEvery = 0
  /\ Count + 3 <= MaxRecords
  /\ workload \in RangeWorkloads
  /\ crashes < MaxCrashes
  /\ LoadOpen(RangeFile)
  /\ crashes' = crashes + 1

Row == cmd.rows[cmd.pos]

\* cmd_load, line 379 at the end of the file, and 385-386: the file is closed
LoadEnd ==
  /\ pc = "load_row"
  /\ cmd.pos > Len(cmd.rows)
  /\ pc' = "done"
  /\ idx' = NoHandle
  /\ res' = [status |-> IF cmd.diag THEN "error" ELSE "ok", exit |-> 0, out |-> <<>>]
  /\ UNCHANGED << header, blocks, key, value, ins, inf, sp, heap, cmd, inserted, pre,
                  workload, crashes, file >>

\* cmd_load, line 380: a row of fewer than two fields is passed over
LoadSkip ==
  /\ pc = "load_row"
  /\ cmd.pos <= Len(cmd.rows)
  /\ Len(Row) < 2
  /\ cmd' = [cmd EXCEPT !.pos = cmd.pos + 1]
  /\ UNCHANGED << header, blocks, idx, pc, key, value, ins, inf, sp, heap, res, inserted,
                  pre, workload, crashes, file >>

\* cmd_load, lines 381 and 383-386: int() raises ValueError, the load ends
LoadValueError ==
  /\ pc = "load_row"
  /\ cmd.pos <= Len(cmd.rows)
  /\ Len(Row) >= 2
  /\ ~(int(Row[1]).ok /\ int(Row[2]).ok)
  /\ pc' = "done"
  /\ idx' = NoHandle
  /\ cmd' = [cmd EXCEPT !.diag = TRUE]
  /\ res' = [status |-> "error", exit |-> 0, out |-> <<>>]
  /\ UNCHANGED << header, blocks, key, value, ins, inf, sp, heap, inserted, pre,
                  workload, crashes, file >>

\* cmd_load, lines 381-382: the row's first two fields are inserted
LoadInsert ==
  /\ pc = "load_row"
  /\ cmd.pos <= Len(cmd.rows)
  /\ Len(Row) >= 2
  /\ int(Row[1]).ok /\ int(Row[2]).ok
  /\ key' = int(Row[1]).val
  /\ value' = int(Row[2]).val
  /\ pre' = Entry(int(Row[1]).val)
  /\ pc' = "insert"
  /\ UNCHANGED << header, blocks, idx, ins, inf, sp, heap, cmd, res, inserted,
                  workload, crashes, file >>

\* main returns or the interpreter exits: the process is gone, and the next
\* command can be given
Exit ==
  /\ pc = "done"
  /\ pc' = "idle"
  /\ key' = 0 /\ value' = 0
  /\ cmd' = NoCmd /\ res' = NoRes
  /\ pre' = NoEntry
  /\ UNCHANGED << header, blocks, idx, ins, inf, sp, heap, inserted, workload, crashes, file >>

\* ------------------------------------------------------------ specification
Next ==
  \/ Exit
  \/ CmdCreateNew \/ CmdCreate \/ OpenFails
  \/ CmdInsert \/ CmdInsertRange \/ CmdInsertValueError
  \/ CmdSearch \/ CmdSearchValueError
  \/ CmdPrint
  \/ CmdExtract \/ CmdExtractExists
  \/ CmdLoadMissing \/ CmdLoad \/ CmdLoadRange
  \/ LoadEnd \/ LoadSkip \/ LoadValueError \/ LoadInsert
  \/ InsertEmpty \/ EmptyWrite \/ EmptyWriteError \/ EmptyHeader
  \/ InsertDuplicate \/ InsertRootFull \/ GrowWrite \/ GrowHeader \/ InsertRootNotFull
  \/ SplitAlloc \/ SplitRelink \/ SplitWriteChild \/ SplitWriteZ \/ SplitWriteParent
  \/ InfLeaf \/ InfLeafError \/ InfDescend \/ InfAfterSplit

Spec == Init /\ [][Next]_vars

\* ------------------------------------------------------------ the tree on disk
\* no insert call is in progress, and no command has just ended (a command
\* that has ended leaves the file as the idle state after it has it)
AtRest == pc \in {"idle", "load_row"}

\* the node blocks written so far
Nodes == { b \in 1..Len(blocks) : blocks[b] # ZeroBlock }

Node(b) == read_node(blocks, b)

Live(node) == { node.children[s] : s \in 0..node.num_keys }

RECURSIVE SubtreeKeys(_)
SubtreeKeys(b) ==
  IF b = 0 THEN {}
  ELSE LET node == Node(b)
       IN { node.keys[s] : s \in 0..(node.num_keys - 1) }
          \cup (IF is_leaf(node) THEN {}
                ELSE UNION { SubtreeKeys(node.children[s]) : s \in 0..node.num_keys })

RECURSIVE LeafDepths(_, _)
LeafDepths(b, d) ==
  IF b = 0 THEN {}
  ELSE IF is_leaf(Node(b)) THEN {d}
  ELSE UNION { LeafDepths(Node(b).children[s], d + 1) : s \in 0..Node(b).num_keys }

\* ------------------------------------------------------------ claims
\* C1: after any sequence of insert calls that returned, traverse(root_id)
\* emits exactly one (key, value) pair per inserted key, in strictly
\* ascending key order, each with the value of the key's first insert
C1_TraverseSortedExact ==
  AtRest =>
    LET t == traverse(blocks, read_header(header).root_id)
    IN /\ Len(t) = Cardinality(DOMAIN inserted)
       /\ \A p \in 1..Len(t) :
            /\ t[p][1] \in DOMAIN inserted
            /\ t[p][2] = inserted[t[p][1]]
            /\ p < Len(t) => t[p][1] < t[p + 1][1]

\* C1 witness: keys offered in descending order came out ascending from a
\* tree of three levels
C1_Witness ==
  /\ pc = "idle" /\ workload = "desc" /\ Height = 2
  /\ Len(traverse(blocks, header.root_id)) = MaxRecords
  /\ traverse(blocks, header.root_id)[1][1] = 0

\* the keys a search is tried with: every key offered, and keys never offered
ProbeKeys == (0 - 1)..(MaxRecords + 10)

\* C2: with the file closed and opened again (the handle's root_id read from
\* block 0), search(K) returns (K, V) for every inserted pair and None for
\* every key never inserted
C2_SearchAfterReopen ==
  pc = "idle" =>
    \A k \in ProbeKeys :
      search(blocks, read_header(header).root_id, k)
        = IF k \in DOMAIN inserted THEN <<k, inserted[k]>> ELSE None

\* C2 witness: a search command found a key in a tree of three levels
C2_Witness ==
  /\ pc = "done" /\ cmd.name = "search" /\ Height = 2
  /\ res.out # None /\ res.out[1] \in DOMAIN inserted

\* C3: an insert call whose key is in the index writes nothing: header and
\* node blocks are the same after it, and it returns with the message printed
C3_DuplicateWritesNothing ==
  [][ (pc = "insert" /\ key \in DOMAIN inserted)
        => /\ header' = header
           /\ blocks' = blocks
           /\ inserted' = inserted
           /\ pc' \in {"done", "load_row"}
           /\ cmd'.diag ]_vars

\* C3 witness: a duplicate was refused while the root was full
C3_Witness ==
  /\ pc = "done" /\ cmd.name = "insert" /\ cmd.diag
  /\ pre.called /\ pre.present /\ pre.root_full

\* C4: every non-root node on disk has DEGREE - 1 .. MAX_KEYS keys, and the
\* root 1 .. MAX_KEYS
C4_KeyCounts ==
  AtRest =>
    \A b \in Nodes :
      /\ Node(b).num_keys <= MAX_KEYS
      /\ Node(b).num_keys >= (IF b = header.root_id THEN 1 ELSE DEGREE - 1)

\* C4 witness: a root of one key over nodes of the least and the greatest count
C4_Witness ==
  /\ pc = "idle" /\ header.root_id # 0
  /\ Node(header.root_id).num_keys = 1
  /\ \E b \in Nodes : b # header.root_id /\ Node(b).num_keys = DEGREE - 1
  /\ \E b \in Nodes : b # header.root_id /\ Node(b).num_keys = MAX_KEYS

\* C5: in every node on disk the live keys are strictly ascending, and every
\* key of the subtree under child i lies strictly between key i - 1 and key i
C5_Ordered ==
  AtRest =>
    \A b \in Nodes :
      LET node == Node(b)
          n == node.num_keys
      IN /\ \A s \in 0..(n - 2) : node.keys[s] < node.keys[s + 1]
         /\ ~is_leaf(node) =>
              \A i \in 0..n : \A k \in SubtreeKeys(node.children[i]) :
                /\ i > 0 => k > node.keys[i - 1]
                /\ i < n => k < node.keys[i]

\* C5 witness: a node of three levels' depth with a key between two subtrees
C5_Witness ==
  /\ pc = "idle" /\ Height = 2 /\ workload = "zig"
  /\ Node(header.root_id).num_keys >= 1

\* C6: all leaves are at one depth; an insert call that finds the root full
\* raises the height by one, and any other leaves it as it was
C6_LeavesLevel ==
  /\ AtRest => Cardinality(LeafDepths(header.root_id, 0)) <= 1
  /\ (pc \in {"done", "load_row"} /\ pre.called) =>
       Height = pre.height + (IF pre.root_full /\ ~pre.present THEN 1 ELSE 0)

\* C6 witness: an insert call found a full root over children and returned
C6_Witness ==
  /\ pc = "done" /\ cmd.name = "insert" /\ res.status = "ok"
  /\ pre.called /\ pre.root_full /\ ~pre.present /\ pre.height = 1 /\ Height = 2

\* C7: the parent_id of every non-root node on disk is the block id of the
\* node that has it among its live children, and the root's parent_id is 0
C7_ParentIds ==
  AtRest =>
    /\ header.root_id # 0 => Node(header.root_id).parent_id = 0
    /\ \A b \in Nodes :
         /\ ~is_leaf(Node(b)) => \A c \in Live(Node(b)) : c \in Nodes /\ Node(c).parent_id = b
         /\ b # header.root_id =>
              /\ Node(b).parent_id \in Nodes
              /\ ~is_leaf(Node(Node(b).parent_id))
              /\ b \in Live(Node(Node(b).parent_id))

\* C7 witness: the old root and the new sibling of a non-leaf split both have
\* children that name them as parent
C7_Witness ==
  /\ pc = "idle" /\ Height = 2
  /\ \A c \in Live(Node(header.root_id)) :
       /\ Node(c).parent_id = header.root_id
       /\ \A g \in Live(Node(c)) : Node(g).parent_id = c

\* C8: at every instant of an insert call at most three node blocks are
\* resident in memory
C8_AtMostThreeResident == Cardinality(Resident) <= 3

\* C9: a command that diagnosed an error ends with a nonzero exit code, and a
\* command that succeeded with exit code zero
C9_ExitCodes ==
  pc = "done" =>
    /\ res.status = "error" => res.exit # 0
    /\ res.status = "ok" => res.exit = 0

\* a row whose key or value is not an integer
BadRow(r) ==
  \/ Len(r) >= 1 /\ ~int(r[1]).ok
  \/ Len(r) >= 2 /\ ~int(r[2]).ok

HasBadRow(rows) == \E j \in 1..Len(rows) : BadRow(rows[j])

FirstBadRow(rows) ==
  CHOOSE j \in 1..Len(rows) : BadRow(rows[j]) /\ \A q \in 1..(j - 1) : ~BadRow(rows[q])

Range(seq) == { seq[p] : p \in DOMAIN seq }

\* the pairs in the index once rows p .. j - 1 are inserted in file order into
\* an index holding pairs, a key already present being refused
RECURSIVE PairsAfter(_, _, _, _)
PairsAfter(pairs, rows, p, j) ==
  IF p >= j THEN pairs
  ELSE IF Len(rows[p]) < 2 \/ int(rows[p][1]).val \in { x[1] : x \in pairs }
  THEN PairsAfter(pairs, rows, p + 1, j)
  ELSE PairsAfter(pairs \cup { << int(rows[p][1]).val, int(rows[p][2]).val >> },
                  rows, p + 1, j)

\* C10: when row j is the first whose key or value is not an integer, the
\* index holds after the load what it held before and the records of the rows
\* before j, in file order, and no record of row j or a later one
C10_LoadPrefix ==
  (pc = "done" /\ cmd.name = "load" /\ HasBadRow(cmd.rows)) =>
    Range(traverse(blocks, header.root_id))
      = PairsAfter(Range(cmd.base), cmd.rows, 1, FirstBadRow(cmd.rows))

\* C11: create on a path where a file is fails and leaves the file as it
\* was, and where none is makes a file of one block of BLOCK_SIZE bytes with
\* the magic, root_id 0 and next_block_id 1; an open fails exactly when the
\* file is absent, shorter than BLOCK_SIZE bytes or starts with other bytes
\* than the magic, and else loads root_id and next_block_id from block 0;
\* no open writes to the file
C11_CreateOpen ==
  [][ pc = "idle" =>
        /\ cmd'.name = "create" =>
              IF file.exists
              THEN /\ file' = file /\ header' = header /\ blocks' = blocks
                   /\ res'.status = "error" /\ res'.exit # 0
              ELSE /\ file' = [exists |-> TRUE, len0 |-> BLOCK_SIZE]
                   /\ blocks' = <<>>
                   /\ header' = [magic |-> MAGIC_NUMBER, root_id |-> 0, next_block_id |-> 1]
                   /\ res'.status = "ok"
        /\ cmd'.opened # "no" =>
              /\ file' = file /\ header' = header /\ blocks' = blocks
              /\ cmd'.opened = "failed"
                   <=> (~file.exists \/ file.len0 < BLOCK_SIZE \/ header.magic # MAGIC_NUMBER)
              /\ cmd'.opened = "failed" => res'.status = "error" /\ res'.exit # 0 /\ pc' = "done"
              /\ (cmd'.opened = "yes" /\ pc' # "done") =>
                   /\ idx'.root_id = header.root_id
                   /\ idx'.next_block_id = header.next_block_id ]_vars

\* C11 witness: an open failed on a file of one whole block whose first
\* bytes are not the magic
C11_Witness ==
  /\ pc = "done" /\ cmd.opened = "failed"
  /\ file = WholeFile /\ header.magic # MAGIC_NUMBER

\* the node blocks a step writes: those whose words differ after it
Wrote ==
  { b \in 1..Len(blocks') :
      IF b <= Len(blocks) THEN blocks'[b] # blocks[b] ELSE blocks'[b] # ZeroBlock }

\* the children a full non-leaf node hands to its new sibling
UpperChildren(node) == { node.children[DEGREE + j] : j \in 0..(DEGREE - 1) } \ {0}

\* C12: in a split_child call, once z is allocated, the node writes are: the
\* relinked grandchildren, then child, then z, then parent; the write of
\* parent ends the split, and until then no node block on disk has z's
\* block id in a child slot
C12_SplitWriteOrder ==
  [][ (sp # <<>> /\ sp[1].z # 0) =>
        LET P == heap[sp[1].parent].block_id
            C == heap[sp[1].child].block_id
            Z == heap[sp[1].z].block_id
            onC == deserialize(blocks[C])
            shrunk == onC.num_keys = DEGREE - 1
            hasZ == Z <= Len(blocks) /\ blocks[Z] # ZeroBlock
        IN /\ Cardinality(Wrote) <= 1
           /\ header' = header
           /\ \A b \in Wrote :
                \/ /\ b \in UpperChildren(onC) /\ ~shrunk /\ ~hasZ
                   /\ deserialize(blocks'[b]).parent_id = Z
                   /\ sp' # <<>>
                \/ /\ b = C /\ ~shrunk /\ ~hasZ
                   /\ \A g \in UpperChildren(onC) : deserialize(blocks[g]).parent_id = Z
                   /\ deserialize(blocks'[C]).num_keys = DEGREE - 1
                   /\ sp' # <<>>
                \/ /\ b = Z /\ shrunk /\ ~hasZ
                   /\ sp' # <<>>
                \/ /\ b = P /\ shrunk /\ hasZ
                   /\ sp' = <<>>
           /\ sp' = <<>> => P \in Wrote
           /\ \A b \in 1..Len(blocks) : \A s \in 0..(MAX_CHILDREN - 1) :
                deserialize(blocks[b]).children[s] # Z ]_vars

\* C12 witness: a split that relinked grandchildren has written child and z
\* and is about to write parent
C12_Witness ==
  /\ pc = "split_write_p"
  /\ ~is_leaf(heap[sp[1].z])
  /\ \A g \in 0..(DEGREE - 1) :
       Node(heap[sp[1].z].children[g]).parent_id = heap[sp[1].z].block_id
  /\ Node(heap[sp[1].child].block_id).num_keys = DEGREE - 1
  /\ Node(heap[sp[1].z].block_id) = heap[sp[1].z]

\* C13: when a header write changes the root_id on disk, the node block it
\* leaves is already written: from 0 (empty index) the new root block is on
\* disk with the key, and from a full root the old root block is on disk
\* with parent_id naming the new root
C13_RootBeforeHeader ==
  [][ header'.root_id # header.root_id =>
        IF header.root_id = 0
        THEN /\ header'.root_id <= Len(blocks)
             /\ deserialize(blocks[header'.root_id]).block_id = header'.root_id
             /\ deserialize(blocks[header'.root_id]).num_keys = 1
             /\ deserialize(blocks[header'.root_id]).keys[0] = key
             /\ deserialize(blocks[header'.root_id]).values[0] = value
        ELSE /\ deserialize(blocks[header.root_id]).num_keys = MAX_KEYS
             /\ deserialize(blocks[header.root_id]).parent_id = header'.root_id
             /\ blocks' = blocks ]_vars

\* C13 witness: the header names the new root above a full non-leaf root,
\* whose block on disk names it as parent
C13_Witness ==
  /\ pc = "split" /\ ins.new_root # 0 /\ sp[1].parent = ins.new_root
  /\ header.root_id = heap[ins.new_root].block_id
  /\ ~is_leaf(heap[ins.root])
  /\ Node(heap[ins.root].block_id).parent_id = header.root_id
  /\ Node(heap[ins.root].block_id).num_keys = MAX_KEYS

\* the live keys of the node in block b
LiveKeys(b) == { Node(b).keys[s] : s \in 0..(Node(b).num_keys - 1) }

\* C14: an insert call of an absent key that found the root full with keys
\* a1 < ... < a19 leaves a root in a block allocated by the call, with one
\* key a10, child 0 the old root block with a1..a9 and child 1 another block
\* allocated by the call with a11..a19; the key is in the subtree its order
\* requires, and when the old root was a leaf the two blocks hold nothing
\* else
C14_RootSplit ==
  (pc \in {"done", "load_row"} /\ pre.called /\ pre.root_full /\ ~pre.present
     /\ res.status # "crash") =>
    LET R  == Node(header.root_id)
        lo == { pre.keys[s] : s \in 0..(DEGREE - 2) }
        hi == { pre.keys[s] : s \in DEGREE..(MAX_KEYS - 1) }
        L  == R.children[0]
        U  == R.children[1]
        before == DOMAIN inserted \ {key}
    IN /\ header.root_id = pre.next_block_id
       /\ R.num_keys = 1
       /\ R.keys[0] = pre.keys[DEGREE - 1]
       /\ L = pre.root_id
       /\ U = pre.next_block_id + 1
       /\ lo \subseteq LiveKeys(L)
       /\ hi \subseteq LiveKeys(U)
       /\ SubtreeKeys(L) = { k \in before \cup {key} : k < R.keys[0] }
       /\ SubtreeKeys(U) = { k \in before \cup {key} : k > R.keys[0] }
       /\ pre.height = 0 =>
            /\ LiveKeys(L) = lo \cup (IF key < R.keys[0] THEN {key} ELSE {})
            /\ LiveKeys(U) = hi \cup (IF key > R.keys[0] THEN {key} ELSE {})

\* C14 witness: keys 1 .. 20 inserted in ascending order: root key 10 over
\* the old root with 1 .. 9 and a new block with 11 .. 20
C14_Witness ==
  /\ pc = "done" /\ cmd.name = "insert" /\ workload = "asc"
  /\ pre.called /\ pre.root_full /\ ~pre.present /\ pre.height = 0
  /\ key = 20
  /\ header.root_id = 2
  /\ LiveKeys(2) = {10}
  /\ LiveKeys(1) = 1..9
  /\ LiveKeys(3) = 11..20

\* an insert call is in progress
InCall == pc \notin {"idle", "done", "load_row"}

\* the block ids of the resident nodes
ResidentIds == { heap[o].block_id : o \in Resident }

\* the nodes a step makes resident without reading them from a written block
Allocated == { o \in Resident' \ Resident : heap'[o].block_id \notin Nodes }

\* C15: allocate_node returns next_block_id, which is at least 1 and is the
\* id of no block written or resident, adds one to it and has the header on
\* disk carry the new value when it returns; at every instant every node
\* block written has an id below the next_block_id on disk, which never
\* decreases; and when an insert call returns, root_id and next_block_id on
\* disk are those of the handle
C15_Allocation ==
  [][ /\ blocks # <<>> => Len(blocks) < header.next_block_id
      /\ Opens(file, header) => header'.next_block_id >= header.next_block_id
      /\ InCall => header.next_block_id = idx.next_block_id
      /\ (InCall /\ Allocated # {}) =>
           /\ idx'.next_block_id = idx.next_block_id + 1
           /\ header'.next_block_id = idx'.next_block_id
           /\ \A o \in Allocated :
                /\ heap'[o].block_id = idx.next_block_id
                /\ heap'[o].block_id >= 1
                /\ heap'[o].block_id \notin ResidentIds
      /\ (InCall /\ idx'.next_block_id # idx.next_block_id /\ pc' \notin {"idle", "done"}) =>
           \E o \in Resident' \ Resident : heap'[o].block_id = idx.next_block_id
      /\ (InCall /\ pc' \in {"done", "load_row"} /\ res'.status # "crash") =>
           /\ header'.root_id = idx.root_id
           /\ header'.next_block_id = idx.next_block_id ]_vars

\* C15 witness: the third block id was allocated for z before any of the
\* blocks 2 and 3 was written
C15_Witness ==
  /\ pc = "split_write_c" /\ heap[sp[1].z].block_id = 3 /\ heap[sp[1].parent].block_id = 2
  /\ header.next_block_id = 4 /\ idx.next_block_id = 4
  /\ Len(blocks) = 1

\* C16: in every node block on disk the key and value slots from num_keys
\* up and the child slots above num_keys are zero, and a leaf has all its
\* child slots zero
C16_ZeroPadding ==
  AtRest =>
    \A b \in Nodes :
      /\ \A s \in Node(b).num_keys..(MAX_KEYS - 1) :
           Node(b).keys[s] = 0 /\ Node(b).values[s] = 0
      /\ \A s \in (Node(b).num_keys + 1)..(MAX_CHILDREN - 1) : Node(b).children[s] = 0
      /\ is_leaf(Node(b)) => \A s \in 0..(MAX_CHILDREN - 1) : Node(b).children[s] = 0

\* C16 witness: a non-leaf node and a leaf that a split left with DEGREE - 1
\* keys have nothing in the slots they gave up
C16_Witness ==
  /\ pc = "idle" /\ Height = 2
  /\ \E b \in Nodes :
       /\ ~is_leaf(Node(b)) /\ Node(b).num_keys = DEGREE - 1
       /\ \A s \in (DEGREE - 1)..(MAX_KEYS - 1) : Node(b).keys[s] = 0 /\ Node(b).values[s] = 0
       /\ \A s \in DEGREE..(MAX_CHILDREN - 1) : Node(b).children[s] = 0
  /\ \E b \in Nodes :
       /\ is_leaf(Node(b)) /\ Node(b).num_keys = DEGREE - 1
       /\ \A s \in (DEGREE - 1)..(MAX_KEYS - 1) : Node(b).keys[s] = 0 /\ Node(b).values[s] = 0

\* IndexFile.search, lines 154-171: whether the search for k from block_id
\* returns at line 170, on a zero child id in a node that is not a leaf
RECURSIVE search_dead_end(_, _, _)
search_dead_end(blks, block_id, k) ==
  LET current == read_node(blks, block_id)
      i == search_scan(current, k, 0)
  IN IF i < current.num_keys /\ k = current.keys[i] THEN FALSE
     ELSE IF is_leaf(current) THEN FALSE
     ELSE IF current.children[i] = 0 THEN TRUE
     ELSE search_dead_end(blks, current.children[i], k)

\* C17: every non-leaf node on disk has nonzero child ids in slots
\* 0 .. num_keys; no search returns on a zero child id of a non-leaf node,
\* and insert_non_full never reads block 0
C17_ChildrenNonzero ==
  /\ AtRest =>
       /\ \A b \in Nodes :
            ~is_leaf(Node(b)) => \A s \in 0..Node(b).num_keys : Node(b).children[s] # 0
       /\ header.root_id # 0 =>
            \A k \in ProbeKeys : ~search_dead_end(blocks, header.root_id, k)
  /\ (pc = "inf" /\ ~is_leaf(heap[Top.node])) =>
       heap[Top.node].children[child_scan(heap[Top.node], key,
                                          heap[Top.node].num_keys - 1) + 1] # 0
  /\ pc = "inf_after" =>
       heap[Top.node].children[IF key > heap[Top.node].keys[Top.i]
                               THEN Top.i + 1 ELSE Top.i] # 0

\* C17 witness: insert_non_full has read its way through two non-leaf nodes
\* to a leaf
C17_Witness ==
  /\ pc = "inf" /\ Len(inf) = 3
  /\ is_leaf(heap[Top.node]) /\ heap[Top.node].block_id # 0
  /\ ~is_leaf(heap[inf[1].node]) /\ ~is_leaf(heap[inf[2].node])

\* C18: insert_non_full is entered with a node of fewer than MAX_KEYS keys;
\* split_child is entered with a child of exactly MAX_KEYS keys and a
\* parent of fewer, so the slots its shifts write, up to keys[num_keys] and
\* children[num_keys + 1] of the parent, exist; and the child it splits is
\* the node just read below the parent, never a node entered before
C18_NonFullEntry ==
  /\ pc = "inf" =>
       /\ heap[Top.node].num_keys < MAX_KEYS
       /\ heap[Top.node].num_keys \in DOMAIN heap[Top.node].keys
  /\ pc = "split" =>
       /\ heap[sp[1].child].num_keys = MAX_KEYS
       /\ heap[sp[1].parent].num_keys < MAX_KEYS
       /\ heap[sp[1].parent].num_keys \in DOMAIN heap[sp[1].parent].keys
       /\ heap[sp[1].parent].num_keys + 1 \in DOMAIN heap[sp[1].parent].children
       /\ sp[1].child \notin { inf[f].node : f \in DOMAIN inf }
       /\ inf # <<>> => sp[1].parent = Top.node /\ sp[1].child = Top.child

\* C18 witness: split_child is entered from insert_non_full with a full
\* child under a parent that has room for just one more key
C18_Witness ==
  /\ pc = "split" /\ inf # <<>>
  /\ heap[sp[1].parent].num_keys = MAX_KEYS - 1
  /\ heap[sp[1].child].num_keys = MAX_KEYS

\* C19: an insert call whose key or value is outside 0 .. 2^64 - 1 writes
\* neither the header nor a node block, and ends as a refusal, not as an
\* uncaught exception
C19_OutOfRangeRefused ==
  [][ (InCall /\ ~(InQ(key) /\ InQ(value))) =>
        /\ header' = header
        /\ blocks' = blocks
        /\ res'.status # "crash" ]_vars

\* the blocks reached from block b through live child pointers
RECURSIVE Reached(_)
Reached(b) ==
  IF b = 0 \/ b > Len(blocks) THEN {}
  ELSE {b} \cup (IF is_leaf(Node(b)) THEN {}
                 ELSE UNION { Reached(Node(b).children[s]) : s \in 0..Node(b).num_keys })

\* the child slots that hold block id b
SlotsOf(b) ==
  { ps \in (1..Len(blocks)) \X (0..(MAX_CHILDREN - 1)) :
      /\ blocks[ps[1]] # ZeroBlock
      /\ ps[2] <= Node(ps[1]).num_keys
      /\ Node(ps[1]).children[ps[2]] = b }

\* C20: after an insert call that returned, the file has next_block_id
\* blocks, every block 1 .. next_block_id - 1 is written and stores its own
\* id, all are reached from the root, the root is in no child slot and
\* every other block in exactly one
C20_NoLeak ==
  (pc \in {"done", "load_row"} /\ pre.called /\ res.status # "crash") =>
    /\ 1 + Len(blocks) = header.next_block_id
    /\ \A b \in 1..(header.next_block_id - 1) :
         /\ b <= Len(blocks)
         /\ blocks[b] # ZeroBlock
         /\ Node(b).block_id = b
         /\ b \in Reached(header.root_id)
         /\ Cardinality(SlotsOf(b)) = (IF b = header.root_id THEN 0 ELSE 1)

====
